---- MODULE Spec2Model ----
(***************************************************************************)
(* Daily French Word agent (src/app.js): an Express handler that keeps a   *)
(* per-channel rotation index over a word list, mirrors it to              *)
(* progress.json, and answers either with the word of the day or with an   *)
(* acknowledgement of the user's sentence.                                 *)
(*                                                                         *)
(* JavaScript strings that the code inspects (trim, toLowerCase, includes) *)
(* are sequences of one-character strings; opaque strings are TLA+ strings.*)
(* "" doubles as "field absent": every probe of the code treats the two    *)
(* alike (both are falsy).                                                 *)
(***************************************************************************)
EXTENDS Integers, Sequences, FiniteSets, TLC

\* ------------------------------------------------------------ bounds
\* Next-word requests the environment sends over one run of the model.
MaxDeliveries == 3
\* Requests that may be waiting in the event loop at the same time.
MaxPending == 2

\* ------------------------------------------------- JavaScript values
\* The non-numeric values an index or a timestamp can hold.
NaN == -1
Undefined == -2
Null == -3

\* JavaScript truthiness of a number-or-nothing value.
Truthy(v) == v > 0

\* ToNumber(x) % total for total >= 1.
JsMod(x, total) ==
  IF x >= 0 THEN x % total
  ELSE IF x = Null THEN 0
  ELSE NaN

\* ToNumber(x) + n.
JsAdd(x, n) ==
  IF x >= 0 THEN x + n
  ELSE IF x = Null THEN n
  ELSE NaN

\* ------------------------------------------------------------ strings
UpperLetters ==
  <<"A", "B", "C", "D", "E", "F", "G", "H", "I", "J", "K", "L",
    "M", "N", "O", "P", "Q", "R", "S", "T", "U", "V", "W", "X", "Y", "Z">>
LowerLetters ==
  <<"a", "b", "c", "d", "e", "f", "g", "h", "i", "j", "k", "l",
    "m", "n", "o", "p", "q", "r", "s", "t", "u", "v", "w", "x", "y", "z">>

LowerOf ==
  [c \in {UpperLetters[i] : i \in 1..Len(UpperLetters)} |->
     LowerLetters[CHOOSE i \in 1..Len(UpperLetters) : UpperLetters[i] = c]]

lowerChar(c) == IF c \in DOMAIN LowerOf THEN LowerOf[c] ELSE c

\* String.prototype.toLowerCase
toLowerCase(s) == [i \in 1..Len(s) |-> lowerChar(s[i])]

RECURSIVE trimStart(_)
trimStart(s) ==
  IF s # <<>> /\ Head(s) = " " THEN trimStart(Tail(s)) ELSE s

RECURSIVE trimEnd(_)
trimEnd(s) ==
  IF s # <<>> /\ s[Len(s)] = " " THEN trimEnd(SubSeq(s, 1, Len(s) - 1)) ELSE s

\* String.prototype.trim
trim(s) == trimEnd(trimStart(s))

\* String.prototype.includes
includes(s, w) ==
  \E i \in 0..(Len(s) - Len(w)) : SubSeq(s, i + 1, i + Len(w)) = w

\* ------------------------------------------------------------ catalog
bonjour == <<"b", "o", "n", "j", "o", "u", "r">>
merci == <<"m", "e", "r", "c", "i">>
silvousplait ==
  <<"s", "'", "i", "l", " ", "v", "o", "u", "s", " ", "p", "l", "a", "î", "t">>
amour == <<"a", "m", "o", "u", "r">>
chien == <<"c", "h", "i", "e", "n">>
chat == <<"c", "h", "a", "t">>

Entry(w, m, e, p) == [word |-> w, meaning |-> m, example |-> e, pron |-> p]

bonjourEntry == Entry(bonjour, "hello (good day)", "Bonjour! Comment ça va?", "bohn-zhoor")
merciEntry == Entry(merci, "thank you", "Merci pour ton aide.", "mehr-see")
plaitEntry == Entry(silvousplait, "please", "Un café, s'il vous plaît.", "seel voo pleh")
amourEntry == Entry(amour, "love", "L'amour est beau.", "ah-moor")
chienEntry == Entry(chien, "dog", "Le chien court dans le parc.", "shee-en")
chatEntry == Entry(chat, "cat", "Le chat dort sur la chaise.", "sha")

\* An entry whose word has a capital letter, as a user-provided list may hold.
Paris == <<"P", "a", "r", "i", "s">>
ParisEntry == Entry(Paris, "Paris", "Paris est la capitale.", "pa-ree")

\* The built-in list.
DefaultWords ==
  <<bonjourEntry, merciEntry, plaitEntry, amourEntry, chienEntry, chatEntry>>

\* A file: absent, present with text JSON.parse rejects, or present with a
\* parsed JSON value: an array of the elements json (<<>> is []), or an
\* object of the members json (<<>> is {}).
NoFile == [exists |-> FALSE, parses |-> FALSE, isArray |-> FALSE, json |-> <<>>]
BadFile == [exists |-> TRUE, parses |-> FALSE, isArray |-> FALSE, json |-> <<>>]
JsonFile(v) == [exists |-> TRUE, parses |-> TRUE, isArray |-> FALSE, json |-> v]
ArrayFile(v) == [exists |-> TRUE, parses |-> TRUE, isArray |-> TRUE, json |-> v]

\* What french_words.json holds in the runs of Spec: nothing, or a JSON array
\* of entries.
WordsFiles ==
  { NoFile,
    ArrayFile(<<chienEntry>>),
    ArrayFile(<<bonjourEntry, merciEntry>>) }

\* What french_words.json can hold at startup: nothing, text that does not
\* parse, [], {} (not an array), or a list of two entries.
StartupWordsFiles ==
  { NoFile, BadFile, ArrayFile(<<>>), JsonFile(<<>>),
    ArrayFile(<<ParisEntry, merciEntry>>) }

\* Mutant of LoadWords: the length of the parsed list is not tested.
LoadWordsAnyLength(file) ==
  IF file.exists /\ file.parses /\ file.isArray
    THEN file.json
    ELSE DefaultWords

\* WORDS after module load: the parsed value when it is a non-empty array,
\* else the built-in list (a failed read or parse is caught and logged).
LoadWords(file) ==
  IF file.exists /\ file.parses /\ file.isArray /\ Len(file.json) > 0
    THEN file.json
    ELSE DefaultWords

\* ------------------------------------------------------- request body
\* An absent field and an empty string are both "".  address is the list of
\* its "/"-separated segments, <<>> when the field is absent.
Body(cid, cId, addr, meta, t, m, c) ==
  [channel_id |-> cid, channelId |-> cId, address |-> addr,
   metadata_channelId |-> meta, text |-> t, message |-> m, content |-> c]

\* Mutant of channelIdOf: the probes are tried in the reverse order.
channelIdOfLastWins(body) ==
  IF body.metadata_channelId # "" THEN body.metadata_channelId
  ELSE IF body.address # <<>> /\ body.address[1] # "" THEN body.address[1]
  ELSE IF body.channelId # "" THEN body.channelId
  ELSE IF body.channel_id # "" THEN body.channel_id
  ELSE "global"

\* const channelId = body?.channel?.id || body?.channelId ||
\*   (typeof body?.address === "string" ? body.address.split("/")[0] : null) ||
\*   body?.metadata?.channelId || "global"
\* (an address that is not a string is <<>>, like an absent one).
channelIdOf(body) ==
  IF body.channel_id # "" THEN body.channel_id
  ELSE IF body.channelId # "" THEN body.channelId
  ELSE IF body.address # <<>> /\ body.address[1] # "" THEN body.address[1]
  ELSE IF body.metadata_channelId # "" THEN body.metadata_channelId
  ELSE "global"

\* (body?.text || body?.message || body?.content || "").toString()
rawText(body) ==
  IF body.text # <<>> THEN body.text
  ELSE IF body.message # <<>> THEN body.message
  ELSE body.content

\* const incomingText = (...).toString().trim().toLowerCase()
incomingText(body) == toLowerCase(trim(rawText(body)))

dailyWord == <<"d", "a", "i", "l", "y", " ", "w", "o", "r", "d">>
start == <<"s", "t", "a", "r", "t">>
help == <<"h", "e", "l", "p">>

\* Mutant of isReply: "help" is missing from the reserved phrases.
isReplyNoHelp(text) ==
  /\ text # <<>>
  /\ Len(text) > 0
  /\ text # dailyWord
  /\ text \notin {start}

\* The condition of the acknowledgement branch.
isReply(text) ==
  /\ text # <<>>
  /\ Len(text) > 0
  /\ text # dailyWord
  /\ text \notin {start, help}

\* ------------------------------------------------------ PROGRESS object
\* PROGRESS is a plain object: its own properties in insertion order, each
\* {index, last_sent}, over the properties it inherits from Object.prototype.
\* PROGRESS["constructor"] is the function Object, which is truthy and can
\* carry properties of its own; inherited[k] holds them.
ProtoKeys == {"constructor"}

NoProps == [index |-> Undefined, last_sent |-> Undefined]

hasOwn(P, k) == \E i \in 1..Len(P) : P[i].key = k

ownAt(P, k) == CHOOSE i \in 1..Len(P) : P[i].key = k

\* !!PROGRESS[k]
present(P, k) == hasOwn(P, k) \/ k \in ProtoKeys

\* PROGRESS[k]?.index
indexOf(P, inh, k) ==
  IF hasOwn(P, k) THEN P[ownAt(P, k)].index
  ELSE IF k \in ProtoKeys THEN inh[k].index
  ELSE Undefined

\* PROGRESS[k]?.last_sent
lastSentOf(P, inh, k) ==
  IF hasOwn(P, k) THEN P[ownAt(P, k)].last_sent
  ELSE IF k \in ProtoKeys THEN inh[k].last_sent
  ELSE Undefined

\* JSON.stringify of a number: NaN is written as null.
jsonNumber(v) == IF v = NaN THEN Null ELSE v

\* JSON.stringify(PROGRESS, null, 2): the own properties, as members
\* <<key, <<index, last_sent>>>> of a JSON object.
stringify(P) ==
  [i \in 1..Len(P) |-> <<P[i].key, <<jsonNumber(P[i].index), P[i].last_sent>>>>]

\* JSON.parse of such a text.
parse(json) ==
  [i \in 1..Len(json) |->
     [key |-> json[i][1], index |-> json[i][2][1], last_sent |-> json[i][2][2]]]

\* Mutant of LoadProgress: the file is never read back.
LoadProgressEmpty(file) == <<>>

\* PROGRESS after module load.
LoadProgress(file) ==
  IF file.exists /\ file.parses THEN parse(file.json) ELSE <<>>

\* What progress.json can hold at startup: nothing, text that does not parse,
\* or entries left by a run over a longer list (last_sent 0: before this
\* model's clock started).
StartupProgressFiles ==
  { NoFile, BadFile,
    JsonFile(<< <<"A", <<7, 0>>>>, <<"constructor", <<3, 0>>>> >>) }

\* fs.writeFileSync outcomes: written; refused at open (the file is left
\* alone); failed after open (the file is left truncated).
WriteOutcomes == {"ok", "EACCES", "ENOSPC"}

\* saveProgress(): the file afterwards.
saveProgressFile(P, file, io) ==
  IF io = "ok" THEN JsonFile(stringify(P))
  ELSE IF io = "EACCES" THEN file
  ELSE BadFile

\* ----------------------------------------------------- rotation engine
\* const idx = PROGRESS[channelId].index % total
servedIndex(cur, total) == JsMod(cur, total)

\* Mutant of nextIndex: the incremented index is stored as it is.
nextIndexNoWrap(cur, total) == JsAdd(cur, 1)

\* Mutant of nextIndex: the increment is lost.
nextIndexStale(cur, total) == JsMod(cur, total)

\* PROGRESS[channelId].index = (PROGRESS[channelId].index + 1) % total
nextIndex(cur, total) == JsMod(JsAdd(cur, 1), total)

\* if (!PROGRESS[channelId]) PROGRESS[channelId] = { index: 0, last_sent: null }
ensureEntry(P, ch) ==
  IF present(P, ch) THEN P
  ELSE Append(P, [key |-> ch, index |-> 0, last_sent |-> Null])

\* The two assignments of pickNextWord, on the object PROGRESS[channelId] is.
advanceOwn(P, ch, total, now) ==
  IF hasOwn(P, ch)
    THEN [P EXCEPT ![ownAt(P, ch)] =
            [key |-> ch, index |-> nextIndex(P[ownAt(P, ch)].index, total),
             last_sent |-> now]]
    ELSE P

advanceInherited(P, inh, ch, total, now) ==
  IF hasOwn(P, ch) \/ ch \notin ProtoKeys THEN inh
  ELSE [inh EXCEPT ![ch] =
          [index |-> nextIndex(inh[ch].index, total), last_sent |-> now]]

\* Mutant of savedMapping: saveProgress() is called before the mutation.
savedBefore(before, after) == before

\* What saveProgress() inside pickNextWord writes: the mapping after the
\* mutation.
savedMapping(before, after) == after

\* pickNextWord(channelId).  threw: saveProgress threw; index is NaN when the
\* returned wordObj is undefined.
pickNextWord(P, inh, file, W, now, ch, io) ==
  LET total == Len(W)
      P1 == ensureEntry(P, ch)
      idx == servedIndex(indexOf(P1, inh, ch), total)
      P2 == advanceOwn(P1, ch, total, now)
      inh2 == advanceInherited(P1, inh, ch, total, now)
  IN  [PROGRESS |-> P2,
       inherited |-> inh2,
       file |-> saveProgressFile(savedMapping(P1, P2), file, io),
       threw |-> io # "ok",
       index |-> idx]

\* --------------------------------------------------- response composer
NoText == [kind |-> "", word |-> <<>>, pron |-> "", meaning |-> "", example |-> ""]

\* The word-of-the-day text.
composed(wordObj) ==
  [kind |-> "daily", word |-> wordObj.word, pron |-> wordObj.pron,
   meaning |-> wordObj.meaning, example |-> wordObj.example]

\* `Amazing — you used the word "${lastWord}" correctly! ...`
praise(lastWord) == [NoText EXCEPT !.kind = "praise", !.word = lastWord]

\* `Thanks — nice try! Here's a tip: ... (e.g., "${example}").`
tip(example) == [NoText EXCEPT !.kind = "tip", !.example = example]

Buttons ==
  << [type |-> "button", title |-> "I'll use it now", payload |-> "I used the word: "],
     [type |-> "button", title |-> "Send a sentence later", payload |-> "send later"] >>

\* Mutant of buildResponsePayload: the buttons are attached to every payload.
buildResponsePayloadButtons(original, text, askForSentence) ==
  [type |-> "message", text |-> text, actions |-> Buttons]

buildResponsePayload(original, text, askForSentence) ==
  [type |-> "message", text |-> text,
   actions |-> IF askForSentence THEN Buttons ELSE <<>>]

\* res.json(payload)
json200(payload) ==
  [status |-> 200, type |-> payload.type, text |-> payload.text,
   actions |-> payload.actions, error |-> ""]

\* res.status(500).json({ error: "Agent internal error" })
json500 ==
  [status |-> 500, type |-> "", text |-> NoText, actions |-> <<>>,
   error |-> "Agent internal error"]

\* ------------------------------------------------------ acknowledgement
\* const lastIndex = PROGRESS[channelId]?.index ? (... + WORDS.length - 1) % WORDS.length : null
lastIndexOf(P, inh, W, ch) ==
  LET i == indexOf(P, inh, ch)
  IN  IF Truthy(i) THEN (i + Len(W) - 1) % Len(W) ELSE Null

\* const lastWord = lastIndex !== null ? WORDS[lastIndex].word : null
\* (null is <<>>: both are falsy).
lastWordOf(P, inh, W, ch) ==
  LET li == lastIndexOf(P, inh, W, ch)
  IN  IF li # Null THEN W[li + 1].word ELSE <<>>

replyText(P, inh, W, ch, text) ==
  LET li == lastIndexOf(P, inh, W, ch)
      lastWord == lastWordOf(P, inh, W, ch)
  IN  IF lastWord # <<>> /\ includes(text, lastWord)
        THEN praise(lastWord)
        ELSE tip(IF lastWord # <<>> THEN W[li + 1].example ELSE "example")

\* Mutant of ackProgress: the branch creates the entry it looks up.
ackProgressLazy(P, ch) == ensureEntry(P, ch)

\* PROGRESS after the acknowledgement branch, which only reads
\* PROGRESS[channelId]?.index.
ackProgress(P, ch) == P

\* ------------------------------------------------------- request handler
\* The try block of the handler: the state it leaves and what it sent, or
\* that it threw.  read: the index WORDS was read at (Null: it was not read).
\* sent: the res.json calls of the block.
tryBlock(P, inh, file, W, now, body, io) ==
  LET ch == channelIdOf(body)
      text == incomingText(body)
  IN  IF isReply(text)
        THEN [PROGRESS |-> ackProgress(P, ch), inherited |-> inh, file |-> file,
              branch |-> "ack", threw |-> FALSE, picks |-> 0, saves |-> 0,
              index |-> Undefined,
              read |-> lastIndexOf(P, inh, W, ch), sent |-> 1,
              payload |-> buildResponsePayload(body, replyText(P, inh, W, ch, text), FALSE)]
        ELSE LET r == pickNextWord(P, inh, file, W, now, ch, io)
             IN  [PROGRESS |-> r.PROGRESS, inherited |-> r.inherited,
                  file |-> r.file,
                  branch |-> "daily", picks |-> 1, saves |-> 1,
                  index |-> r.index,
                  read |-> r.index,
                  sent |-> IF r.threw \/ r.index = NaN THEN 0 ELSE 1,
                  \* wordObj.word throws when wordObj is undefined
                  threw |-> r.threw \/ r.index = NaN,
                  payload |->
                    IF r.threw \/ r.index = NaN
                      THEN buildResponsePayload(body, NoText, TRUE)
                      ELSE buildResponsePayload(body, composed(W[r.index + 1]), TRUE)]

\* Mutant of respond: the payload is sent whether or not the block threw.
respondPayload(t) == json200(t.payload)

\* The catch clause: what the caller gets.
respond(t) == IF t.threw THEN json500 ELSE json200(t.payload)

\* Mutant of survives: a throw inside the handler is not caught.
survivesUncaught(t) == ~t.threw

\* Whether the process survives the request (every throw is caught).
survives(t) == TRUE

\* The responses the request got: those of the try block, and the one of the
\* catch clause when the block threw.
responses(t) == t.sent + (IF t.threw THEN 1 ELSE 0)

\* ---------------------------------------------------------- the inputs
\* Raw message texts.
sp == " "
NoInput == <<>>
Blank == <<sp, sp>>
StartPadded == <<sp, "S", "t", "a", "r", "t", sp>>
HelpUpper == <<"H", "E", "L", "P">>
DailyWordMixed == <<"D", "a", "i", "l", "y", sp, "W", "o", "r", "d">>
MerciBeaucoup == merci \o <<sp, "b", "e", "a", "u", "c", "o", "u", "p">>
MonChien == <<"M", "o", "n", sp>> \o chien

JaimeParis == <<"J", "'", "a", "i", "m", "e", sp>> \o Paris

RawTexts ==
  { NoInput, Blank, StartPadded, HelpUpper, DailyWordMixed,
    MerciBeaucoup, MonChien }

\* The conversation identifiers the requests carry.
Channels == {"A", "B", "constructor"}

\* Request bodies: channel A in body.channelId, channel B in body.channel.id,
\* "constructor" as the first segment of body.address; the text in body.text.
Bodies ==
  { Body("", "A", <<>>, "", t, <<>>, <<>>) : t \in RawTexts }
  \cup { Body("B", "", <<>>, "", t, <<>>, <<>>) : t \in {NoInput, MonChien} }
  \cup { Body("", "", <<"constructor", "thread">>, "", t, <<>>, <<>>) :
           t \in {NoInput, MonChien} }

\* The requests sent to a process started on the files above.
StartupBodies ==
  { Body("", "A", <<>>, "", t, <<>>, <<>>) : t \in {NoInput, JaimeParis} }
  \cup { Body("", "", <<"constructor", "thread">>, "", NoInput, <<>>, <<>>) }

\* Request bodies for the identifier probes: every combination of the four
\* fields being there or not, each with a value of its own; the address also
\* as "/thread", whose first segment is empty.
ProbeBodies ==
  { Body(ci, cI, ad, me, t, <<>>, <<>>) :
      ci \in {"", "B"}, cI \in {"", "A"},
      ad \in {<<>>, <<"C", "thread">>, <<"", "thread">>},
      me \in {"", "M"}, t \in {NoInput, MonChien} }

ProbeChannels == {"A", "B", "C", "M", "global"}

\* -------------------------------------------------------------- state
VARIABLES
  wordsFile,     \* french_words.json
  WORDS,         \* the catalog
  PROGRESS,      \* the in-memory progress object
  inherited,     \* properties set on objects PROGRESS inherits
  progressFile,  \* progress.json
  clock,         \* new Date()
  running,       \* the process is up
  pending,       \* requests received and not yet handled; overlap: the
                 \* request was waiting while another one was handled
  last,          \* the request handled last, and what it did
  unsaved,       \* a write failed and none has succeeded since
  count,         \* per channel: next-word requests handled since startup
  fresh,         \* per channel: no progress entry at startup
  tracked        \* the position in pending of the request being followed
                 \* until it is answered, 0 when none is

vars ==
  <<wordsFile, WORDS, PROGRESS, inherited, progressFile, clock, running,
    pending, last, unsaved, count, fresh, tracked>>

NoBody == Body("", "", <<>>, "", <<>>, <<>>, <<>>)

\* last.overlap: the request was already waiting when the previous one was
\* handled.  last.prevIndex: the index the previous request served, when that
\* was a next-word request of the same channel (else Undefined).
\* last.tracked: the request was the one being followed.
NoRequest ==
  [op |-> "none", body |-> NoBody, channelId |-> "", raw |-> <<>>,
   branch |-> "", res |-> json500, responses |-> 0, threw |-> FALSE,
   picks |-> 0, saves |-> 0, index |-> Undefined, read |-> Null,
   before |-> Undefined, after |-> Undefined,
   overlap |-> FALSE, prevIndex |-> Undefined, tracked |-> FALSE]

Init ==
  /\ wordsFile \in WordsFiles
  /\ WORDS = LoadWords(wordsFile)
  /\ progressFile = NoFile
  /\ PROGRESS = LoadProgress(progressFile)
  /\ inherited = [k \in ProtoKeys |-> NoProps]
  /\ clock = 1
  /\ running = TRUE
  /\ pending = <<>>
  /\ last = NoRequest
  /\ unsaved = FALSE
  /\ count = [c \in Channels |-> 0]
  /\ fresh = [c \in Channels |-> ~hasOwn(PROGRESS, c)]
  /\ tracked = 0

\* A bare next-word request (no text at all).
isBare(body) == rawText(body) = NoInput

\* Next-word requests among the waiting ones.
waitingPicks(q) == Cardinality({j \in 1..Len(q) : ~isReply(incomingText(q[j].body))})

\* A request arrives and waits for the event loop.  The environment lets
\* requests wait together only when all of them are bare next-word requests,
\* and sends at most MaxDeliveries next-word requests (the clock has ticked
\* once for each one handled).
Receive(body) ==
  /\ running
  /\ isReply(incomingText(body)) \/ (clock - 1) + waitingPicks(pending) < MaxDeliveries
  /\ Len(pending) < MaxPending
  /\ \/ pending = <<>>
     \/ isBare(body) /\ \A j \in 1..Len(pending) : isBare(pending[j].body)
  /\ pending' = Append(pending, [body |-> body, overlap |-> FALSE])
  /\ UNCHANGED <<wordsFile, WORDS, PROGRESS, inherited, progressFile, clock,
                 running, last, unsaved, count, fresh, tracked>>

\* The queue without its i-th request; the others have now waited through a
\* handler run.
remove(q, i) ==
  [j \in 1..(Len(q) - 1) |->
     [body |-> q[IF j < i THEN j ELSE j + 1].body, overlap |-> TRUE]]

\* The event loop takes the i-th waiting request off its queue to run the
\* handler on it.
Dequeue(i) ==
  /\ running
  /\ i \in 1..Len(pending)
  /\ pending' = remove(pending, i)

\* app.post("/mastra/agent"): the handler runs to completion on pending[i].
\* It has no await and writes the file synchronously.  (t is bound by \E so
\* that the try block is evaluated once per step.)
Handle(i, io) ==
  /\ Dequeue(i)
  /\ \E t \in {tryBlock(PROGRESS, inherited, progressFile, WORDS, clock,
                         pending[i].body, io)} :
     LET req == pending[i]
         ch == channelIdOf(req.body)
     IN  /\ PROGRESS' = t.PROGRESS
         /\ inherited' = t.inherited
         /\ progressFile' = t.file
         /\ clock' = clock + t.picks
         /\ running' = survives(t)
         /\ last' = [op |-> "handle", body |-> req.body, channelId |-> ch,
                     raw |-> rawText(req.body), branch |-> t.branch,
                     res |-> respond(t), responses |-> responses(t),
                     threw |-> t.threw,
                     picks |-> t.picks, saves |-> t.saves,
                     index |-> t.index, read |-> t.read,
                     before |-> indexOf(PROGRESS, inherited, ch),
                     after |-> indexOf(t.PROGRESS, t.inherited, ch),
                     overlap |-> req.overlap,
                     prevIndex |->
                       IF /\ last.op = "handle"
                          /\ last.branch = "daily"
                          /\ last.channelId = ch
                         THEN last.index
                         ELSE Undefined,
                     tracked |-> (i = tracked)]
         /\ unsaved' = IF t.saves = 1 THEN io # "ok" ELSE unsaved
         /\ count' = IF t.branch = "daily" THEN [count EXCEPT ![ch] = @ + 1] ELSE count
  /\ tracked' = IF i = tracked THEN 0
                ELSE IF i < tracked THEN tracked - 1
                ELSE tracked
  /\ UNCHANGED <<wordsFile, WORDS, fresh>>

\* The process is restarted: module load runs again on the files.
Restart ==
  /\ WORDS' = LoadWords(wordsFile)
  /\ PROGRESS' = LoadProgress(progressFile)
  /\ inherited' = [k \in ProtoKeys |-> NoProps]
  /\ running' = TRUE
  /\ pending' = <<>>
  /\ last' = NoRequest
  /\ unsaved' = FALSE
  /\ count' = [c \in Channels |-> 0]
  /\ fresh' = [c \in Channels |-> ~hasOwn(LoadProgress(progressFile), c)]
  /\ tracked' = 0
  /\ UNCHANGED <<wordsFile, progressFile, clock>>

Next ==
  \/ \E body \in Bodies : Receive(body)
  \/ \E i \in 1..MaxPending, io \in WriteOutcomes : Handle(i, io)
  \/ Restart

Spec == Init /\ [][Next]_vars

\* ------------------------------------------ the event loop, scheduled
\* One of the waiting requests is picked to be followed.
Track(j) ==
  /\ tracked = 0
  /\ j \in 1..Len(pending)
  /\ tracked' = j
  /\ UNCHANGED <<wordsFile, WORDS, PROGRESS, inherited, progressFile, clock,
                 running, pending, last, unsaved, count, fresh>>

\* A process started on the two-entry list and no progress file.
LiveInit == Init /\ Len(WORDS) = 2

\* The requests it gets: next-word requests of two conversations and a reply.
LiveBodies ==
  { Body("", "A", <<>>, "", t, <<>>, <<>>) : t \in {NoInput, MerciBeaucoup} }
  \cup { Body("B", "", <<>>, "", NoInput, <<>>, <<>>) }

LiveNext ==
  \/ \E body \in LiveBodies : Receive(body)
  \/ \E i \in 1..MaxPending, io \in WriteOutcomes : Handle(i, io)
  \/ \E j \in 1..MaxPending : Track(j)

\* The event loop runs the handler on every request it holds: taking a
\* waiting request off the queue, which only Handle does, is not postponed
\* forever.
LiveSpec ==
  /\ LiveInit
  /\ [][LiveNext]_vars
  /\ \A i \in 1..MaxPending : WF_pending(Dequeue(i))

\* ------------------------------------------ startup on any pair of files
StartupInit ==
  /\ wordsFile \in StartupWordsFiles
  /\ WORDS = LoadWords(wordsFile)
  /\ progressFile \in StartupProgressFiles
  /\ PROGRESS = LoadProgress(progressFile)
  /\ inherited = [k \in ProtoKeys |-> NoProps]
  /\ clock = 1
  /\ running = TRUE
  /\ pending = <<>>
  /\ last = NoRequest
  /\ unsaved = FALSE
  /\ count = [c \in Channels |-> 0]
  /\ fresh = [c \in Channels |-> ~hasOwn(PROGRESS, c)]
  /\ tracked = 0

StartupNext ==
  \/ \E body \in StartupBodies : Receive(body)
  \/ \E i \in 1..MaxPending, io \in WriteOutcomes : Handle(i, io)
  \/ Restart

StartupSpec == StartupInit /\ [][StartupNext]_vars

\* ------------------------------------- one request, any identifier fields
\* A freshly started process with the built-in list and one request waiting.
ExtractInit ==
  /\ wordsFile = NoFile
  /\ WORDS = LoadWords(wordsFile)
  /\ progressFile = NoFile
  /\ PROGRESS = LoadProgress(progressFile)
  /\ inherited = [k \in ProtoKeys |-> NoProps]
  /\ clock = 1
  /\ running = TRUE
  /\ \E body \in ProbeBodies : pending = <<[body |-> body, overlap |-> FALSE]>>
  /\ last = NoRequest
  /\ unsaved = FALSE
  /\ count = [c \in ProbeChannels |-> 0]
  /\ fresh = [c \in ProbeChannels |-> TRUE]
  /\ tracked = 0

ExtractNext == \E io \in WriteOutcomes : Handle(1, io)

ExtractSpec == ExtractInit /\ [][ExtractNext]_vars

\* ======================================================== properties
T == Len(WORDS)

Handled == last.op = "handle"

\* The normalized text of the request handled last.
lastText == toLowerCase(trim(last.raw))

\* This step is a run of the handler.
HandleStep == last'.op = "handle" /\ Len(pending') = Len(pending) - 1

\* Strict round-robin of channel c since startup: the stored index is the
\* number of next-word requests modulo the catalog size, and the request
\* handled last picked the entry before it.
RoundRobin(c) ==
  (fresh[c] /\ count[c] > 0) =>
    /\ indexOf(PROGRESS, inherited, c) = count[c] % T
    /\ (Handled /\ last.branch = "daily" /\ last.channelId = c) =>
         /\ last.index = (count[c] - 1) % T
         /\ last.res.status = 200 => last.res.text.word = WORDS[last.index + 1].word

\* Lemma: channels whose name PROGRESS does not inherit rotate strictly.
RoundRobinOwnKeys == \A c \in Channels \ ProtoKeys : RoundRobin(c)

\* C1: for every conversation identifier with no prior progress, the k-th
\* (0-based) next-word request serves catalog index k mod T and leaves the
\* stored index at (k+1) mod T.
C1_StrictRoundRobin == \A c \in Channels : RoundRobin(c)

\* The entry the stored index says was served last to c: (index - 1) mod T.
servedBefore(c) == (indexOf(PROGRESS, inherited, c) + T - 1) % T

\* c has an entry whose cursor has moved at least once.
Served(c) == hasOwn(PROGRESS, c) /\ lastSentOf(PROGRESS, inherited, c) >= 0

AckOf(c) == Handled /\ last.branch = "ack" /\ last.channelId = c

\* C2: a free-text reply whose normalized text contains the word served last
\* to its conversation (the entry at (index - 1) mod T) gets the
\* congratulatory response naming that word.
C2_AckPraisesServedWord ==
  \A c \in Channels :
    (AckOf(c) /\ Served(c)
       /\ includes(lastText, WORDS[servedBefore(c) + 1].word)) =>
      /\ last.res.status = 200
      /\ last.res.text.kind = "praise"
      /\ last.res.text.word = WORDS[servedBefore(c) + 1].word

\* The inputs that ask for the next word, as sent.
TriggerInputs == {NoInput, Blank, StartPadded, HelpUpper, DailyWordMixed}

isTrigger(text) == text = <<>> \/ text \in {dailyWord, start, help}

\* The stored index a next-word request must leave, given the one it found.
advanced(ch, before) ==
  IF ch \in ProtoKeys THEN NaN
  ELSE IF before = Undefined THEN 1 % T
  ELSE (before + 1) % T

\* C3: a request whose trimmed, lowercased text is empty or one of "daily
\* word", "start", "help" takes the rotation branch (the cursor assignment
\* runs once) and never the acknowledgement branch; any other text takes the
\* acknowledgement branch and never the rotation branch.
C3_BranchRouting ==
  Handled =>
    /\ (isTrigger(lastText) \/ last.raw \in TriggerInputs) =>
         /\ last.branch = "daily"
         /\ last.picks = 1
         /\ last.after = advanced(last.channelId, last.before)
         /\ last.res.status = 200 => last.res.text.kind = "daily"
    /\ (~isTrigger(lastText) \/ last.raw \in RawTexts \ TriggerInputs) =>
         /\ last.branch = "ack"
         /\ last.picks = 0
         /\ last.after = last.before
         /\ last.res.text.kind \in {"praise", "tip"}

C3_Witness ==
  /\ Handled
  /\ last.raw = StartPadded
  /\ last.branch = "daily"
  /\ last.after = 0
  /\ T = 2

\* C4: an acknowledgement request changes no conversation's index or
\* last_sent and does not write the progress file; the progress object
\* changes only in a handler run that calls pickNextWord, which it does once,
\* or when the process reloads it.
C4_AckLeavesProgress ==
  [][ /\ (HandleStep /\ last'.branch = "ack") =>
           /\ UNCHANGED <<PROGRESS, inherited, progressFile, clock>>
           /\ last'.saves = 0
      /\ (PROGRESS' # PROGRESS \/ inherited' # inherited) =>
           \/ HandleStep /\ last'.branch = "daily" /\ last'.picks = 1
                /\ last'.saves = 1
           \/ last'.op = "none"
    ]_vars

C4_Witness ==
  /\ Handled
  /\ last.branch = "ack"
  /\ Served(last.channelId)
  /\ progressFile.exists

\* C5: a next-word request for conversation A leaves the stored index and
\* last_sent of every other conversation B unchanged, and under any
\* interleaving each conversation keeps its own strict round-robin.
C5_Isolation ==
  [][ /\ \A a, b \in Channels :
           (a # b /\ HandleStep /\ last'.branch = "daily" /\ last'.channelId = a) =>
             /\ indexOf(PROGRESS', inherited', b) = indexOf(PROGRESS, inherited, b)
             /\ lastSentOf(PROGRESS', inherited', b) = lastSentOf(PROGRESS, inherited, b)
      /\ C1_StrictRoundRobin'
    ]_vars

\* PROGRESS as a restart would load it now.
Reloaded == LoadProgress(progressFile)

\* C6: when no write has failed since the last successful one, reloading
\* progress.json gives every conversation that has an entry the same index, so
\* that its next delivery serves the same catalog entry.
C6_RestartRoundTrip ==
  ~unsaved =>
    \A c \in Channels :
      hasOwn(PROGRESS, c) =>
        /\ hasOwn(Reloaded, c)
        /\ indexOf(Reloaded, [k \in ProtoKeys |-> NoProps], c)
             = indexOf(PROGRESS, inherited, c)
        /\ servedIndex(indexOf(Reloaded, [k \in ProtoKeys |-> NoProps], c),
                       Len(LoadWords(wordsFile)))
             = servedIndex(indexOf(PROGRESS, inherited, c), T)

C6_Witness ==
  /\ ~unsaved
  /\ Len(PROGRESS) = 2
  /\ \E i \in 1..2 : PROGRESS[i].index = 2
  /\ last.op = "none"
  /\ clock > 1

\* C7: every next-word request calls saveProgress once, and when its
\* response is the word of the day the file holds exactly the progress object
\* as the request left it.
C7_PersistBeforeRespond ==
  (Handled /\ last.branch = "daily") =>
    /\ last.saves = 1
    /\ last.res.status = 200 =>
         /\ progressFile = JsonFile(stringify(PROGRESS))
         /\ Reloaded = PROGRESS

C7_Witness ==
  /\ Handled
  /\ last.branch = "daily"
  /\ last.res.status = 200
  /\ Len(PROGRESS) = 2
  /\ last.after = 0

\* C8: a request whose handling throws, a failed write included, is answered
\* with status 500 and {error: ...} and no message payload; the process
\* keeps running; a 200 response is only sent when nothing threw.
C8_FailureIsGenericError ==
  /\ running
  /\ Handled =>
       /\ last.threw => last.res = json500
       /\ last.res.status = 500 =>
            /\ last.res.error # ""
            /\ last.res.type = ""
            /\ last.res.text = NoText
            /\ last.res.actions = <<>>
       /\ last.res.status = 200 =>
            /\ ~last.threw
            /\ last.res.type = "message"
            /\ last.res.error = ""

C8_Witness ==
  /\ Handled
  /\ last.threw
  /\ last.channelId = "A"
  /\ unsaved
  /\ last.res.status = 500

\* Two next-word requests of one conversation that waited together and were
\* handled one right after the other; the first picked index last.prevIndex.
OverlappingPair ==
  /\ Handled
  /\ last.branch = "daily"
  /\ last.overlap
  /\ last.prevIndex >= 0

C10_AckWithoutMatch ==
  \A c \in Channels :
    AckOf(c) =>
      /\ (Served(c) /\ ~includes(lastText, WORDS[servedBefore(c) + 1].word)) =>
           /\ last.res.text.kind = "tip"
           /\ last.res.text.example = WORDS[servedBefore(c) + 1].example
      /\ (fresh[c] /\ count[c] = 0) =>
           /\ last.res.text.kind = "tip"
           /\ last.res.text.example = "example"

\* The values of the four identifier probes, in the order of the claim; ""
\* when the probe finds nothing.
probes(body) ==
  << body.channel_id,
     body.channelId,
     IF body.address = <<>> THEN "" ELSE body.address[1],
     body.metadata_channelId >>

\* The first probe that finds an identifier, or the sentinel.
firstMatch(p) ==
  IF \A i \in 1..Len(p) : p[i] = "" THEN "global"
  ELSE p[CHOOSE i \in 1..Len(p) : p[i] # "" /\ \A j \in 1..(i - 1) : p[j] = ""]

\* C11: the conversation identifier of a request is the value of the first of
\* the probes body.channel.id, body.channelId, first "/"-segment of
\* body.address, body.metadata.channelId that finds one, whatever the later
\* probes hold, and "global" when none does; a next-word request stores its
\* progress under that identifier, and with no identifier and no text the
\* answer is the first word and the index of "global" becomes 1.
C11_FirstMatchWins ==
  Handled =>
    /\ last.channelId = firstMatch(probes(last.body))
    /\ last.branch = "daily" =>
         /\ Len(PROGRESS) = 1
         /\ PROGRESS[1].key = firstMatch(probes(last.body))
    /\ (last.body = NoBody /\ last.res.status = 200) =>
         /\ last.res.text.word = bonjour
         /\ indexOf(PROGRESS, inherited, "global") = 1

C11_Witness ==
  /\ Handled
  /\ last.body.channel_id = ""
  /\ last.body.channelId = "A"
  /\ last.body.address = <<"C", "thread">>
  /\ last.body.metadata_channelId = "M"
  /\ last.channelId = "A"
  /\ hasOwn(PROGRESS, "A")

\* french_words.json is missing, does not parse, or holds an empty list or
\* something that is not a list.
NoUsableList ==
  \/ ~wordsFile.exists
  \/ ~wordsFile.parses
  \/ ~wordsFile.isArray
  \/ wordsFile.json = <<>>

\* C12: the catalog always has at least one entry; when the external list is
\* missing, unparsable, empty or not a list it is exactly the built-in list;
\* the process is up after loading it.
C12_CatalogLoad ==
  /\ running
  /\ Len(WORDS) >= 1
  /\ NoUsableList => WORDS = DefaultWords

C12_Witness ==
  /\ wordsFile = ArrayFile(<<>>)
  /\ WORDS = DefaultWords
  /\ Handled
  /\ last.res.status = 200
  /\ last.res.text.word = bonjour

\* No request has been handled since the process started: progress.json is
\* still the file that was loaded.
AtStartup == last.op = "none"

\* C13: when progress.json is missing or does not parse, the process starts
\* with an empty progress object and no error, and the first next-word
\* request of any conversation without an entry at startup, its write
\* succeeding, is answered with the catalog entry at index 0.
C13_ProgressLoadRecovers ==
  /\ (AtStartup /\ (~progressFile.exists \/ ~progressFile.parses)) =>
       /\ running
       /\ PROGRESS = <<>>
       /\ \A c \in Channels : fresh[c]
  /\ \A c \in Channels :
       (/\ fresh[c] /\ count[c] = 1
        /\ Handled /\ last.branch = "daily" /\ last.channelId = c
        /\ ~unsaved) =>
         /\ last.res.status = 200
         /\ last.index = 0
         /\ last.res.text.word = WORDS[1].word

\* Lemma: C13 for the conversations whose name PROGRESS does not inherit.
ProgressLoadRecoversOwnKeys ==
  /\ (AtStartup /\ (~progressFile.exists \/ ~progressFile.parses)) =>
       /\ running
       /\ PROGRESS = <<>>
       /\ \A c \in Channels : fresh[c]
  /\ \A c \in Channels \ ProtoKeys :
       (/\ fresh[c] /\ count[c] = 1
        /\ Handled /\ last.branch = "daily" /\ last.channelId = c
        /\ ~unsaved) =>
         /\ last.res.status = 200
         /\ last.index = 0
         /\ last.res.text.word = WORDS[1].word

\* C14: for a conversation whose entry was read from progress.json at
\* startup (its index may be T or more), a next-word request reads the
\* catalog at index mod T, an acknowledgement that reads the catalog reads it
\* at (index - 1) mod T, every such read is within 0..T-1, and once a
\* next-word request was handled the stored index is within 0..T-1 and
\* last_sent is a timestamp.
C14_IndexWithinCatalog ==
  \A c \in Channels :
    ~fresh[c] =>
      /\ (Handled /\ last.channelId = c /\ last.branch = "daily") =>
           /\ last.before >= 0
           /\ last.read = last.before % T
           /\ last.read \in 0..(T - 1)
           /\ last.after \in 0..(T - 1)
      /\ (Handled /\ last.channelId = c /\ last.branch = "ack"
             /\ last.read # Null) =>
           /\ last.before >= 1
           /\ last.read = (last.before - 1) % T
           /\ last.read \in 0..(T - 1)
      /\ count[c] > 0 =>
           /\ indexOf(PROGRESS, inherited, c) \in 0..(T - 1)
           /\ lastSentOf(PROGRESS, inherited, c) >= 1

C14_Witness ==
  /\ Handled
  /\ last.branch = "daily"
  /\ ~fresh[last.channelId]
  /\ last.before = 7
  /\ T = 2
  /\ last.read = 1
  /\ last.after = 0
  /\ last.res.status = 200

\* C15: an acknowledgement that looked up the word served last affirms the
\* reply exactly when the trimmed, lowercased reply contains the lowercased
\* word, whatever the letter case of the word in the catalog.
C15_CaseInsensitiveMatch ==
  \A c \in Channels :
    (AckOf(c) /\ Served(c) /\ last.read # Null) =>
      (last.res.text.kind = "praise"
         <=> includes(lastText, toLowerCase(WORDS[last.read + 1].word)))

\* C16: a waiting request is eventually answered, and when it leaves the
\* queue it has been answered exactly once, with a message payload or with
\* the generic error.
C16_EveryRequestAnswered ==
  /\ (tracked # 0) ~> (tracked = 0)
  /\ [][ (tracked # 0 /\ tracked' = 0) =>
           /\ last'.op = "handle"
           /\ last'.tracked
           /\ Len(pending') = Len(pending) - 1
           /\ last'.responses = 1
           /\ \/ last'.res = json500
              \/ last'.res.status = 200 /\ last'.res.type = "message"
      ]_vars
  /\ [][ HandleStep => last'.responses = 1 ]_vars

C16_Witness ==
  /\ Handled
  /\ last.tracked
  /\ last.overlap
  /\ last.responses = 1
  /\ last.res.status = 500
  /\ tracked = 0

\* C17: a 200 response has type "message"; its actions are the two buttons
\* "I'll use it now" and "Send a sentence later" exactly when the request
\* took the next-word branch and moved the cursor, and the empty list exactly
\* when it was an acknowledgement.
C17_ResponseShape ==
  (Handled /\ last.res.status = 200) =>
    /\ last.res.type = "message"
    /\ last.res.actions \in {Buttons, <<>>}
    /\ last.res.actions = Buttons <=>
         /\ last.branch = "daily"
         /\ last.picks = 1
         /\ last.after = advanced(last.channelId, last.before)
    /\ last.res.actions = <<>> <=>
         /\ last.branch = "ack"
         /\ last.after = last.before
    /\ last.res.actions = Buttons =>
         /\ Len(last.res.actions) = 2
         /\ last.res.actions[1].title = "I'll use it now"
         /\ last.res.actions[2].title = "Send a sentence later"

C17_Witness ==
  /\ Handled
  /\ last.res.status = 200
  /\ last.branch = "daily"
  /\ last.res.actions = Buttons
  /\ last.before = 1
  /\ last.after = 0

\* This step is a next-word request whose write of progress.json failed.
FailedWriteStep == HandleStep /\ last'.branch = "daily" /\ unsaved'

\* What a failed write leaves in memory: the caller gets the generic error,
\* the index has moved by one and last_sent is set.
AdvancedInMemory ==
  /\ last'.res = json500
  /\ last'.after = advanced(last'.channelId, last'.before)
  /\ lastSentOf(PROGRESS', inherited', last'.channelId) = clock

\* The next-word request that follows a failed one of the same conversation
\* and succeeds serves the entry after the one that was lost.
ServesFollowing ==
  (/\ Handled /\ last.branch = "daily" /\ unsaved /\ last.index >= 0
   /\ HandleStep /\ last'.branch = "daily"
   /\ last'.channelId = last.channelId /\ last'.res.status = 200) =>
    last'.index = (last.index + 1) % T

\* C18: when the write of a next-word request fails, the caller gets the
\* error response, the in-memory index has advanced by one and last_sent is
\* set, progress.json keeps what it held, and the next successful delivery
\* of that conversation serves the following entry.
C18_NoRollbackOnFailedWrite ==
  [][ /\ FailedWriteStep => (AdvancedInMemory /\ progressFile' = progressFile)
      /\ ServesFollowing
    ]_vars

\* Lemma: C18 without its clause on progress.json.
NoRollbackInMemory ==
  [][ /\ FailedWriteStep => AdvancedInMemory
      /\ ServesFollowing
    ]_vars

====
